---- MODULE Spec2Model ----
(***************************************************************************)
(* Model of generate_mem_diagram.py: the region list of MemoryMapParser,   *)
(* its resolution by sort_and_check_nodes (two sorts with the raising      *)
(* comparators, blank-region insertion, fill_gaps) and check_labels, the   *)
(* node markup of generate_node_latex / populate_template with the heights *)
(* of calculate_height, the single print of the main program, and          *)
(* set_config of update_csv_group.py rewriting a csv file.                 *)
(* sorted(..., cmp=...) is modelled as CPython 2's list sort for lists     *)
(* shorter than 64 elements: count_run followed by binarysort, so that the *)
(* pairs handed to the comparator are the pairs the program compares.      *)
(***************************************************************************)
EXTENDS Integers, Sequences, FiniteSets, TLC

VARIABLES nodes, labels, reverse, pc, err, errname, csvnodes, presorted,
          config, out, stdout, trace, file, file0, args, fstatus

\* the generator's configuration, its node strings, what it printed, and the
\* calls of the run that have returned
genvars == <<config, out, stdout, trace>>

\* the csv file set_config rewrites, its lines before the call, the call's
\* arguments and how the call ended
filevars == <<file, file0, args, fstatus>>

vars == <<nodes, labels, reverse, pc, err, errname, csvnodes, presorted,
          config, out, stdout, trace, file, file0, args, fstatus>>

\* ---------------------------------------------------------------- bounds
MaxNodes == 3
MaxAddr == 7
MaxLabels == 2
MaxLines == 3

\* ---------------------------------------------------------------- values
\* Python's None for an omitted endpoint (from_csv: empty field).
None == -99

OK == "ok"

Addr == -1..MaxAddr
Endpoint == Addr \cup {None}

GrowKinds == {"grow up regular", "grow down regular"}

\* Labels random.choice can produce for a region without one (GenLabels), and
\* the labels of the rows of a file: written by the author, or generated.
ExplicitLabels == {"a", "b"}
GenLabels == {"G1", "G2"}
LabelNames == ExplicitLabels \cup {"G1"}

\* MemoryMapNode.__init__ (label already chosen: given, or generated)
MemoryMapNode(lo, hi, kind, label) ==
  [lo |-> lo, hi |-> hi, kind |-> kind, label |-> label,
   grow |-> kind \in GrowKinds]

\* BlankRegionNode.__init__: kind "rempty", label generated
BlankRegionNode(lo, hi, genlabel) == MemoryMapNode(lo, hi, "rempty", genlabel)

\* MemoryMapRegionLabel / MemoryMapMultiRegionLabel
MemoryMapRegionLabel(nodeid) == [cls |-> "region", nodeid |-> nodeid]
MemoryMapMultiRegionLabel(top, bottom) ==
  [cls |-> "multi", topnode |-> top, bottomnode |-> bottom]

node_ids_top_only(l) ==
  IF l.cls = "region" THEN <<l.nodeid>> ELSE <<l.topnode>>

node_ids(l) ==
  IF l.cls = "region" THEN <<l.nodeid>> ELSE <<l.topnode, l.bottomnode>>

\* ---------------------------------------------------------------- checks
check_range(n, rev) ==
  IF n.lo # None /\ n.hi # None
  THEN IF ~(n.hi > n.lo) THEN "BadRange" ELSE OK
  ELSE IF rev
       THEN IF n.hi = None THEN "MissingHi" ELSE OK
       ELSE IF n.lo = None THEN "MissingLo" ELSE OK

check_range_overlap_no_end_check(self, other, rev) ==
  IF check_range(self, rev) # OK THEN check_range(self, rev)
  ELSE IF check_range(other, rev) # OK THEN check_range(other, rev)
  ELSE IF ~rev
  THEN IF self.lo = other.lo THEN "Overlap" ELSE OK
  ELSE IF self.hi = other.hi THEN "Overlap" ELSE OK

check_range_overlap_lower_only(self, other, rev) ==
  IF check_range(self, rev) # OK THEN check_range(self, rev)
  ELSE IF check_range(other, rev) # OK THEN check_range(other, rev)
  ELSE IF ~rev
  THEN IF self.lo = other.lo THEN "Overlap"
       ELSE IF self.lo < other.lo
       THEN IF self.hi # None /\ ~(self.hi <= other.lo) THEN "Overlap" ELSE OK
       ELSE OK
  ELSE IF self.hi = other.hi THEN "Overlap"
       ELSE IF self.hi < other.hi
       THEN IF other.lo # None /\ ~(other.lo >= self.hi) THEN "Overlap" ELSE OK
       ELSE OK

check_range_overlap(self, other, rev) ==
  IF check_range(self, rev) # OK THEN check_range(self, rev)
  ELSE IF check_range(other, rev) # OK THEN check_range(other, rev)
  ELSE IF ~rev
  THEN IF self.lo = other.lo THEN "Overlap"
       ELSE IF self.lo < other.lo
       THEN IF self.hi # None /\ ~(self.hi <= other.lo) THEN "Overlap" ELSE OK
       ELSE IF other.hi # None /\ ~(other.hi <= self.lo) THEN "Overlap" ELSE OK
  ELSE IF self.hi = other.hi THEN "Overlap"
       ELSE IF self.hi < other.hi
       THEN IF other.lo # None /\ ~(other.lo >= self.hi) THEN "Overlap" ELSE OK
       ELSE IF self.lo # None /\ ~(self.lo >= other.hi) THEN "Overlap" ELSE OK

\* compareascend / comparedescend: the check, then the difference of the keys
\* (e is what check_range_overlap raised)
compare_keys(e, self, other, rev) ==
  [err |-> e,
   val |-> IF e # OK THEN 0
           ELSE IF rev THEN other.hi - self.hi ELSE self.lo - other.lo]

compare(self, other, rev) ==
  compare_keys(check_range_overlap(self, other, rev), self, other, rev)

check_node_no_sign_check(n, rev) ==
  IF rev /\ n.hi = None THEN "MissingHi"
  ELSE IF ~rev /\ n.lo = None THEN "MissingLo"
  ELSE IF n.lo # None /\ n.hi # None /\ n.lo >= n.hi THEN "EndNotAfterStart"
  ELSE OK

check_node(n, rev) ==
  IF rev /\ n.hi = None THEN "MissingHi"
  ELSE IF ~rev /\ n.lo = None THEN "MissingLo"
  ELSE IF n.lo # None /\ n.lo < 0 THEN "NegativeStart"
  ELSE IF n.hi # None /\ n.hi < 0 THEN "NegativeEnd"
  ELSE IF n.lo # None /\ n.hi # None /\ n.lo >= n.hi THEN "EndNotAfterStart"
  ELSE OK

\* ---------------------------------------------------------------- sorted()
\* The operators below take the result of the step before them as a
\* parameter (c: a comparison, r: a run, b: a position), so that each step is
\* evaluated once, as in the sequential code.

\* ISLT(x, y): the comparator's result is negative
Negative(c) == [err |-> c.err, lt |-> c.val < 0]

ISLT(x, y, rev) == Negative(compare(x, y, rev))

RECURSIVE RunScan(_, _, _, _)
RunScanStep(c, s, i, desc, rev) ==
  IF c.err # OK THEN [n |-> i - 1, desc |-> desc, err |-> c.err]
  ELSE IF c.lt = desc THEN RunScan(s, i + 1, desc, rev)
  ELSE [n |-> i - 1, desc |-> desc, err |-> OK]

\* the loop of count_run: the run goes on while the next element compares
\* as the first pair did
RunScan(s, i, desc, rev) ==
  IF i > Len(s) THEN [n |-> Len(s), desc |-> desc, err |-> OK]
  ELSE RunScanStep(ISLT(s[i], s[i - 1], rev), s, i, desc, rev)

CountRunFrom(c, s, rev) ==
  IF c.err # OK THEN [n |-> 1, desc |-> FALSE, err |-> c.err]
  ELSE RunScan(s, 3, c.lt, rev)

\* count_run: length of the run at the head of s, and whether it descends
count_run(s, rev) == CountRunFrom(ISLT(s[2], s[1], rev), s, rev)

reverse_slice(s, n) ==
  [i \in 1..Len(s) |-> IF i <= n THEN s[n + 1 - i] ELSE s[i]]

RECURSIVE BinSearch(_, _, _, _, _)
BinSearchStep(c, p, s, pivot, l, r, rev) ==
  IF c.err # OK THEN [l |-> l, err |-> c.err]
  ELSE IF c.lt
       THEN IF l < p THEN BinSearch(s, pivot, l, p, rev) ELSE [l |-> l, err |-> OK]
       ELSE IF p + 1 < r THEN BinSearch(s, pivot, p + 1, r, rev)
            ELSE [l |-> p + 1, err |-> OK]

BinSearchAt(p, s, pivot, l, r, rev) ==
  BinSearchStep(ISLT(pivot, s[p], rev), p, s, pivot, l, r, rev)

\* the do-while of binarysort: where pivot goes in the sorted s[l..r-1]
BinSearch(s, pivot, l, r, rev) ==
  BinSearchAt(l + ((r - l) \div 2), s, pivot, l, r, rev)

MoveTo(s, start, l) ==
  [i \in 1..Len(s) |-> IF i < l THEN s[i]
                       ELSE IF i = l THEN s[start]
                       ELSE IF i <= start THEN s[i - 1]
                       ELSE s[i]]

RECURSIVE binarysort(_, _, _)
BinarySortStep(b, s, start, rev) ==
  IF b.err # OK THEN [list |-> s, err |-> b.err]
  ELSE binarysort(MoveTo(s, start, b.l), start + 1, rev)

\* binarysort: s[1..start-1] is sorted; insert s[start], s[start+1], ...
binarysort(s, start, rev) ==
  IF start > Len(s) THEN [list |-> s, err |-> OK]
  ELSE BinarySortStep(BinSearch(s, s[start], 1, start, rev), s, start, rev)

SortRun(run, s, rev) ==
  IF run.err # OK THEN [list |-> s, err |-> run.err]
  ELSE binarysort(IF run.desc THEN reverse_slice(s, run.n) ELSE s,
                  run.n + 1, rev)

\* sorted(s, cmp=compareascend | comparedescend)
sorted(s, rev) ==
  IF Len(s) < 2 THEN [list |-> s, err |-> OK]
  ELSE SortRun(count_run(s, rev), s, rev)

\* ---------------------------------------------------------------- resolver
RECURSIVE check_nodes(_, _)
\* for n in nodes: n.check_node(reverse)   (the first error raised, or OK)
check_nodes(s, rev) ==
  IF s = <<>> THEN OK
  ELSE IF check_node(Head(s), rev) # OK THEN check_node(Head(s), rev)
  ELSE check_nodes(Tail(s), rev)

\* Python truth value of an endpoint: None and 0 are false
Truthy(x) == x # None /\ x # 0

RECURSIVE blank_spans_any_gap(_, _, _)
blank_spans_any_gap(s, i, rev) ==
  IF i > Len(s) THEN <<>>
  ELSE LET last == s[i - 1]
           n == s[i]
           rest == blank_spans_any_gap(s, i + 1, rev) IN
       IF ~rev
       THEN IF Truthy(last.hi) /\ n.lo > last.hi
            THEN <<(<<last.hi, n.lo>>)>> \o rest ELSE rest
       ELSE IF Truthy(last.lo) /\ n.hi < last.lo
            THEN <<(<<n.hi, last.lo>>)>> \o rest ELSE rest

RECURSIVE blank_spans(_, _, _)
\* the loop over range(1, len(nodes)): the <<lo, hi>> of each BlankRegionNode
\* appended, in the order appended
blank_spans(s, i, rev) ==
  IF i > Len(s) THEN <<>>
  ELSE LET last == s[i - 1]
           n == s[i]
           rest == blank_spans(s, i + 1, rev) IN
       IF ~rev
       THEN IF Truthy(last.hi) /\ n.lo > last.hi + 1
            THEN <<(<<last.hi, n.lo>>)>> \o rest ELSE rest
       ELSE IF Truthy(last.lo) /\ n.hi < last.lo - 1
            THEN <<(<<n.hi, last.lo>>)>> \o rest ELSE rest

RECURSIVE fill_gaps_loop(_, _, _)
\* the loop of fill_gaps from index i on; s[i - 1] is `last`
fill_gaps_loop(s, i, rev) ==
  IF i > Len(s) THEN s
  ELSE IF ~rev
       THEN IF s[i - 1].hi = None
            THEN fill_gaps_loop([s EXCEPT ![i - 1].hi = s[i].lo - 1], i + 1, rev)
            ELSE fill_gaps_loop(s, i + 1, rev)
       ELSE IF s[i].lo = None
            THEN fill_gaps_loop([s EXCEPT ![i].lo = s[i - 1].hi - 1], i + 1, rev)
            ELSE fill_gaps_loop(s, i + 1, rev)

fill_gaps(s, rev) == fill_gaps_loop(s, 2, rev)

Raise(e, name) ==
  /\ pc' = "failed"
  /\ err' = e
  /\ errname' = name

\* lines 496-500: the list with the blank regions has been sorted again
AfterSecondSort(second) ==
  IF second.err # OK
  THEN /\ Raise(second.err, "")
       /\ UNCHANGED <<nodes, presorted>>
  ELSE /\ nodes' = fill_gaps(second.list, reverse)
       /\ presorted' = second.list
       /\ pc' = "resolved"
       /\ UNCHANGED <<err, errname>>

\* lines 483-499: one BlankRegionNode per span, each with a generated label
AppendBlanks(s, spans) ==
  \E g \in [1..Len(spans) -> GenLabels] :
    AfterSecondSort(sorted(s \o [i \in 1..Len(spans) |->
                            BlankRegionNode(spans[i][1], spans[i][2], g[i])],
                    reverse))

\* lines 480-482: the check_node loop over the sorted list
AfterCheckNodes(s, chk) ==
  IF chk # OK
  THEN /\ Raise(chk, "")
       /\ UNCHANGED <<nodes, presorted>>
  ELSE AppendBlanks(s, blank_spans(s, 2, reverse))

\* lines 475-478: the first sort
AfterFirstSort(first) ==
  IF first.err # OK
  THEN /\ Raise(first.err, "")
       /\ UNCHANGED <<nodes, presorted>>
  ELSE AfterCheckNodes(first.list, check_nodes(first.list, reverse))

\* MemoryMapParser.sort_and_check_nodes(reverse)
SortAndCheckNodes ==
  /\ pc = "parsed"
  /\ AfterFirstSort(sorted(nodes, reverse))
  /\ trace' = IF pc' = "resolved" THEN Append(trace, "sort_and_check_nodes")
                                  ELSE trace
  /\ UNCHANGED <<labels, reverse, csvnodes, config, out, stdout, filevars>>

RECURSIVE all_node_ids(_)
\* [l for label in self.labels for l in label.node_ids()]
all_node_ids(ls) ==
  IF ls = <<>> THEN <<>> ELSE node_ids(Head(ls)) \o all_node_ids(Tail(ls))

node_labels(ns) == {ns[i].label : i \in 1..Len(ns)}

\* MemoryMapParser.check_labels()
CheckLabels ==
  /\ pc = "resolved"
  /\ LET ids == all_node_ids(labels)
         present(l) == l \in node_labels(nodes)
         missing == SelectSeq(ids, LAMBDA l : ~present(l))
     IN IF missing # <<>>
        THEN Raise("UnknownLabel", Head(missing))
        ELSE /\ pc' = "checked"
             /\ UNCHANGED <<err, errname>>
  /\ trace' = IF pc' = "checked" THEN Append(trace, "check_labels") ELSE trace
  /\ UNCHANGED <<nodes, labels, reverse, csvnodes, presorted>>
  /\ UNCHANGED <<config, out, stdout, filevars>>

\* ---------------------------------------------------------------- emission
\* MemoryMapNodeTemplate.minheight, 1.3: heights are exact fractions
\* <<numerator, denominator>> with a positive denominator
minheight == <<13, 10>>

FracDiv(n, d) == IF d < 0 THEN <<-n, -d>> ELSE <<n, d>>

FracAdd(a, b) == <<a[1] * b[2] + b[1] * a[2], a[2] * b[2]>>

FracMul(a, b) == <<a[1] * b[1], a[2] * b[2]>>

FracLess(a, b) == a[1] * b[2] < b[1] * a[2]

\* Python's max(a, b): b only when b > a
FracMax(a, b) == IF FracLess(a, b) THEN b ELSE a

Height(h) == [err |-> OK, height |-> h]

HeightRaised(e) == [err |-> e, height |-> minheight]

calculate_height_unscaled(node, memrange, maxheight, fixed_height, additional) ==
  IF fixed_height THEN Height(FracAdd(minheight, <<2, 10>>))
  ELSE IF node.hi = None \/ node.lo = None THEN HeightRaised("TypeError")
  ELSE IF memrange = 0 THEN HeightRaised("ZeroDivisionError")
  ELSE Height(FracMax(minheight,
                FracAdd(<<additional, 1>>,
                        FracMul(FracDiv(node.hi - node.lo, memrange),
                                <<maxheight, 1>>))))

calculate_height_never_fixed(node, memrange, maxheight, fixed_height, additional) ==
  IF node.hi = None \/ node.lo = None THEN HeightRaised("TypeError")
  ELSE IF memrange = 0 THEN HeightRaised("ZeroDivisionError")
  ELSE Height(FracMax(minheight,
                FracMul(FracAdd(<<additional, 1>>,
                                FracMul(FracDiv(node.hi - node.lo, memrange),
                                        <<maxheight, 1>>)),
                        <<5, 10>>)))

\* MemoryMapNodeTemplate.calculate_height
calculate_height(node, memrange, maxheight, fixed_height, additional) ==
  IF fixed_height THEN Height(FracAdd(minheight, <<2, 10>>))
  ELSE IF node.hi = None \/ node.lo = None THEN HeightRaised("TypeError")
  ELSE IF memrange = 0 THEN HeightRaised("ZeroDivisionError")
  ELSE Height(FracMax(minheight,
                FracMul(FracAdd(<<additional, 1>>,
                                FracMul(FracDiv(node.hi - node.lo, memrange),
                                        <<maxheight, 1>>)),
                        <<5, 10>>)))

\* str.startswith
startswith(s, prefix) ==
  Len(s) >= Len(prefix) /\ SubSeq(s, 1, Len(prefix)) = prefix

RECURSIVE lstrip(_)
lstrip(s) ==
  IF Len(s) > 0 /\ SubSeq(s, 1, 1) = " " THEN lstrip(SubSeq(s, 2, Len(s)))
  ELSE s

RECURSIVE rstrip(_)
rstrip(s) ==
  IF Len(s) > 0 /\ SubSeq(s, Len(s), Len(s)) = " "
  THEN rstrip(SubSeq(s, 1, Len(s) - 1))
  ELSE s

\* str.strip
strip(s) == rstrip(lstrip(s))

\* s[len(prefix):].strip()
strip_prefix(s, prefix) == strip(SubSeq(s, Len(prefix) + 1, Len(s)))

\* lines 208-210: node.kind once the 'grow down ' branch has run
kind_after_grow_down(kind) ==
  IF startswith(kind, "grow down ") THEN strip_prefix(kind, "grow down")
  ELSE kind

\* lines 205-218: typeattrs once the 'grow down ' branch has run
typeattrs_grow_down(kind, rev) ==
  IF startswith(kind, "grow down ")
  THEN " " \o "very thick, " \o (IF ~rev THEN "grow up," ELSE "grow down,")
  ELSE " "

\* lines 219-230: the 'grow up ' branch and its else, on the kind k and the
\* typeattrs t the first branch left
typeattrs_grow_up(k, t, rev) ==
  IF startswith(k, "grow up ")
  THEN t \o (IF ~rev THEN "grow down," ELSE "grow up,")
  ELSE t \o k

\* lines 205-232: the attributes of the node's kind, which the template also
\* stores in node.kind
typeattrs(kind, rev) ==
  typeattrs_grow_up(kind_after_grow_down(kind), typeattrs_grow_down(kind, rev),
                    rev)

HexDigit ==
  <<"0", "1", "2", "3", "4", "5", "6", "7",
    "8", "9", "A", "B", "C", "D", "E", "F">>

RECURSIVE hex(_)
\* the upper-case hexadecimal digits of v >= 0
hex(v) ==
  IF v < 16 THEN HexDigit[v + 1]
  ELSE hex(v \div 16) \o HexDigit[(v % 16) + 1]

RECURSIVE zfill(_, _)
zfill(s, w) == IF Len(s) >= w THEN s ELSE zfill("0" \o s, w)

\* ('0x{0:0%dX}' % w).format(v) for an integer v: the sign counts in the width
format_address(v, w) ==
  "0x" \o (IF v < 0 THEN "-" \o zfill(hex(-v), w - 1) ELSE zfill(hex(v), w))

\* '%d' % x for the float x = f[1] / f[2] >= 0: the integer part
format_d(f) == f[1] \div f[2]

\* lines 233-262: the address labels of a node; formatting None raises
address_labels(node, addresswidth, toplabel, bottomlabel, rev, noaddr) ==
  LET top == IF ~rev THEN node.lo ELSE node.hi
      bottom == IF ~rev THEN node.hi ELSE node.lo
      w == format_d(FracMul(addresswidth, <<2, 1>>))
  IN IF noaddr \/ ~(toplabel \/ bottomlabel)
     THEN [err |-> OK, top |-> "", bottom |-> ""]
     ELSE IF (toplabel /\ top = None) \/ (bottomlabel /\ bottom = None)
     THEN [err |-> "ValueError", top |-> "", bottom |-> ""]
     ELSE [err |-> OK,
           top |-> IF toplabel THEN format_address(top, w) ELSE "",
           bottom |-> IF bottomlabel THEN format_address(bottom, w) ELSE ""]

\* line 195: the allowance of a region with a growth annotation
additional(node) == IF node.grow THEN 4 ELSE 0

NoTex ==
  [node_id |-> "", height |-> minheight, below |-> FALSE, typeattrs |-> "",
   top |-> "", bottom |-> ""]

\* lines 233-273, on the node whose kind line 232 has overwritten
template(node, h, lab, nodeindex) ==
  IF lab.err # OK THEN [err |-> lab.err, node |-> node, tex |-> NoTex]
  ELSE [err |-> OK, node |-> node,
        tex |-> [node_id |-> node.label, height |-> h,
                 below |-> nodeindex > 0, typeattrs |-> node.kind,
                 top |-> lab.top, bottom |-> lab.bottom]]

\* lines 200-232, after calculate_height
after_height(node, h, addresswidth, toplabel, bottomlabel, rev, noaddr, nodeindex) ==
  IF h.err # OK THEN [err |-> h.err, node |-> node, tex |-> NoTex]
  ELSE template([node EXCEPT !.kind = typeattrs(node.kind, rev)], h.height,
                address_labels(node, addresswidth, toplabel, bottomlabel, rev,
                               noaddr),
                nodeindex)

\* MemoryMapNodeTemplate.populate_template: the markup of one node, and the
\* node as the call leaves it
populate_template(node, addresswidth, toplabel, bottomlabel, rev, memrange, maxheight, noaddr, nodeindex, fixed_height) ==
  after_height(node,
               calculate_height(node, memrange, maxheight, fixed_height,
                                additional(node)),
               addresswidth, toplabel, bottomlabel, rev, noaddr, nodeindex)

Generated(e, ns, o) == [err |-> e, nodes |-> ns, o |-> o]

RECURSIVE node_latex_loop(_, _, _, _, _, _, _, _)

\* o += populate_template(...) and the next iteration
node_latex_step(ns, o, i, rev, addrwidth, maxheight, fixed, noaddr, r) ==
  IF r.err # OK THEN Generated(r.err, [ns EXCEPT ![i] = r.node], o)
  ELSE node_latex_loop([ns EXCEPT ![i] = r.node], Append(o, r.tex), i + 1,
                       rev, addrwidth, maxheight, fixed, noaddr)

\* the loop of generate_node_latex from the i-th node on
node_latex_loop(ns, o, i, rev, addrwidth, maxheight, fixed, noaddr) ==
  IF i > Len(ns) THEN Generated(OK, ns, o)
  ELSE IF ~rev
  THEN IF ns[1].lo = None THEN Generated("LowestUndefined", ns, o)
       ELSE IF ns[Len(ns)].hi = None THEN Generated("TypeError", ns, o)
       ELSE node_latex_step(ns, o, i, rev, addrwidth, maxheight, fixed, noaddr,
              populate_template(ns[i], FracMul(addrwidth, <<2, 1>>), TRUE,
                                i = Len(ns), rev, ns[Len(ns)].hi - ns[1].lo,
                                maxheight, noaddr, i - 1, fixed))
  ELSE IF ns[Len(ns)].hi = None THEN Generated("HighestUndefined", ns, o)
       ELSE IF ns[1].hi = None \/ ns[Len(ns)].lo = None
       THEN Generated("TypeError", ns, o)
       ELSE node_latex_step(ns, o, i, rev, addrwidth, maxheight, fixed, noaddr,
              populate_template(ns[i], addrwidth, i = 1, TRUE, rev,
                                ns[1].hi - ns[Len(ns)].lo, maxheight, noaddr,
                                i - 1, fixed))

\* MemoryMapGenerator.generate_node_latex
generate_node_latex(ns, rev, addrwidth, maxheight, fixed, noaddr) ==
  node_latex_loop(ns, <<>>, 1, rev, addrwidth, maxheight, fixed, noaddr)

\* MemoryMapRegionLabel.to_latex / MemoryMapMultiRegionLabel.to_latex
to_latex(l) ==
  IF l.cls = "region" THEN "\\regionlabel{" \o l.nodeid \o "}"
  ELSE "\\multiregionlabel{" \o l.topnode \o "}{" \o l.bottomnode \o "}"

\* MemoryMapGenerator.generate_region_label_latex
generate_region_label_latex(ls) == [i \in 1..Len(ls) |-> to_latex(ls[i])]

\* gen_node_strs after generate_node_latex: a raise ends the run with the
\* regions as the loop left them
AfterNodeLatex(r) ==
  IF r.err # OK
  THEN /\ pc' = "genfailed"
       /\ err' = r.err
       /\ nodes' = r.nodes
       /\ UNCHANGED <<errname, out, trace>>
  ELSE /\ pc' = "generated"
       /\ nodes' = r.nodes
       /\ out' = [nodes |-> r.o, labels |-> generate_region_label_latex(labels)]
       /\ trace' = Append(trace, "gen_node_strs")
       /\ UNCHANGED <<err, errname>>

GenNodeStrs_unchecked ==
  /\ pc \in {"resolved", "checked"}
  /\ AfterNodeLatex(generate_node_latex(nodes, reverse, <<config.buswidth, 8>>,
                                        config.height, config.fixed,
                                        config.noaddr))
  /\ UNCHANGED <<labels, reverse, csvnodes, presorted, config, stdout, filevars>>

\* gen_node_strs(m)
GenNodeStrs ==
  /\ pc = "checked"
  /\ AfterNodeLatex(generate_node_latex(nodes, reverse, <<config.buswidth, 8>>,
                                        config.height, config.fixed,
                                        config.noaddr))
  /\ UNCHANGED <<labels, reverse, csvnodes, presorted, config, stdout, filevars>>

\* s = gen_tex_string(...); print(s)
WriteStdout ==
  /\ pc = "generated"
  /\ stdout' = Append(stdout, out)
  /\ pc' = "printed"
  /\ trace' = Append(trace, "print")
  /\ UNCHANGED <<nodes, labels, reverse, err, errname, csvnodes, presorted>>
  /\ UNCHANGED <<config, out, filevars>>

Next == SortAndCheckNodes \/ CheckLabels \/ GenNodeStrs \/ WriteStdout

\* a second call of sort_and_check_nodes(reverse), on the regions the first
\* call left in self.nodes
SortAgain ==
  /\ pc = "resolved"
  /\ trace = <<"sort_and_check_nodes">>
  /\ AfterFirstSort(sorted(nodes, reverse))
  /\ trace' = IF pc' = "resolved" THEN Append(trace, "sort_and_check_nodes")
                                  ELSE trace
  /\ UNCHANGED <<labels, reverse, csvnodes, config, out, stdout, filevars>>

NextAgain == Next \/ SortAgain

\* ---------------------------------------------------------------- set_config
\* update_csv_group.set_config(f, typ, key, value, name): the file is a string
\* and its lines are strings that keep their "\n", as readlines() returns them

RECURSIVE readlines(_)
\* file.readlines()
readlines(text) ==
  IF text = "" THEN <<>>
  ELSE LET n == CHOOSE k \in 1..Len(text) :
                  /\ (SubSeq(text, k, k) = "\n" \/ k = Len(text))
                  /\ \A j \in 1..(k - 1) : SubSeq(text, j, j) # "\n"
       IN <<SubSeq(text, 1, n)>> \o readlines(SubSeq(text, n + 1, Len(text)))

RECURSIVE split(_, _, _)
\* str.split(sep, maxsplit) for a one-character sep
split(s, sep, maxsplit) ==
  IF maxsplit = 0 \/ \A k \in 1..Len(s) : SubSeq(s, k, k) # sep THEN <<s>>
  ELSE LET n == CHOOSE k \in 1..Len(s) :
                  /\ SubSeq(s, k, k) = sep
                  /\ \A j \in 1..(k - 1) : SubSeq(s, j, j) # sep
       IN <<SubSeq(s, 1, n - 1)>>
            \o split(SubSeq(s, n + 1, Len(s)), sep, maxsplit - 1)

RECURSIVE join(_, _)
\* sep.join(parts)
join(parts, sep) ==
  IF parts = <<>> THEN ""
  ELSE IF Len(parts) = 1 THEN parts[1]
  ELSE parts[1] \o sep \o join(Tail(parts), sep)

\* csv.reader([l], delimiter=',') on a line without quotes: the fields of
\* the line without its line end
csv_row(l) ==
  IF l = "" \/ l = "\n" THEN <<>>
  ELSE IF SubSeq(l, Len(l), Len(l)) = "\n"
       THEN split(SubSeq(l, 1, Len(l) - 1), ",", -1)
       ELSE split(l, ",", -1)

all_in(s, chars) == \A k \in 1..Len(s) : SubSeq(s, k, k) \in chars

DecDigits == {"0", "1", "2", "3", "4", "5", "6", "7", "8", "9"}

OctDigits == {"0", "1", "2", "3", "4", "5", "6", "7"}

HexDigits ==
  DecDigits \cup {"a", "b", "c", "d", "e", "f", "A", "B", "C", "D", "E", "F"}

\* int(s, 0) accepts the unsigned literal s: 0x hexadecimal, decimal, or
\* octal with a leading 0
is_int_unsigned(s) ==
  IF Len(s) > 2 /\ SubSeq(s, 1, 2) \in {"0x", "0X"}
  THEN all_in(SubSeq(s, 3, Len(s)), HexDigits)
  ELSE IF Len(s) > 1 /\ SubSeq(s, 1, 1) = "0" THEN all_in(s, OctDigits)
  ELSE Len(s) > 0 /\ all_in(s, DecDigits)

\* int(s, 0) does not raise ValueError
is_int(s) ==
  IF Len(s) > 0 /\ SubSeq(s, 1, 1) \in {"+", "-"}
  THEN is_int_unsigned(SubSeq(s, 2, Len(s)))
  ELSE is_int_unsigned(s)

\* MemoryMapNode.from_csv(row, lineno): the label of the node, or the
\* exception; genlabel is the label generated for an empty label field
from_csv(row, genlabel) ==
  IF Len(row) < 3 THEN [err |-> "IndexError", label |-> ""]
  ELSE IF strip(row[3]) # "" /\ ~is_int(strip(row[3]))
  THEN [err |-> "ValueError", label |-> ""]
  ELSE IF Len(row) < 4 THEN [err |-> "IndexError", label |-> ""]
  ELSE IF strip(row[4]) # "" /\ ~is_int(strip(row[4]))
  THEN [err |-> "ValueError", label |-> ""]
  ELSE IF Len(row) < 5 THEN [err |-> "IndexError", label |-> ""]
  ELSE [err |-> OK,
        label |-> IF strip(row[5]) = "" THEN genlabel ELSE strip(row[5])]

nodefields == <<"type", "kind", "lo", "hi", "label", "comment">>

\* nodefields.index(key), 1-based; 0 when list.index raises ValueError
index(key) ==
  IF \E i \in 1..Len(nodefields) : nodefields[i] = key
  THEN CHOOSE i \in 1..Len(nodefields) : nodefields[i] = key
  ELSE 0

Line(e, l, found) == [err |-> e, l |-> l, key_found |-> found]

\* lines 42-46: a line in config mode
config_line(l, parts, key, value) ==
  IF Len(parts) > 1 /\ parts[1] = "config" /\ parts[2] = key
  THEN IF Len(parts) < 3 THEN Line("IndexError", l, TRUE)
       ELSE Line(OK, join([parts EXCEPT ![3] = value], ",") \o "\n", TRUE)
  ELSE Line(OK, l, FALSE)

\* lines 52-61: the line rebuilt from the fields of a node row named name
node_fields(l, fields, key, value) ==
  IF index(key) = 0 THEN Line("ValueError", l, FALSE)
  ELSE IF \E i \in 1..Len(nodefields) : i # index(key) /\ i > Len(fields)
  THEN Line("IndexError", l, FALSE)
  ELSE Line(OK,
            join([i \in 1..Len(nodefields) |->
                    IF i = index(key) THEN value ELSE fields[i]], ",")
              \o "\n",
            FALSE)

\* lines 50-51: from_csv on the fields of a node row
node_row(l, fields, node, key, value, name) ==
  IF node.err # OK THEN Line(node.err, l, FALSE)
  ELSE IF node.label = name THEN node_fields(l, fields, key, value)
  ELSE Line(OK, l, FALSE)

\* lines 47-62: a line in node mode
node_line(l, parts, key, value, name, genlabel) ==
  IF parts[1] = "node"
  THEN node_row(l, csv_row(l), from_csv(csv_row(l), genlabel), key, value,
                name)
  ELSE Line(OK, l, FALSE)

\* lines 41-62: the body of the loop for the line l
process_line(l, a, genlabel) ==
  IF a.typ = "config" THEN config_line(l, split(l, ",", 3), a.key, a.value)
  ELSE IF a.typ = "node"
  THEN node_line(l, split(l, ",", 3), a.key, a.value, a.name, genlabel)
  ELSE Line(OK, l, FALSE)

Rewritten(e, text, found) == [err |-> e, text |-> text, key_found |-> found]

RECURSIVE write_lines(_, _, _, _, _, _)

\* fopen.write(l), unless the line raised, and the next line
write_step(lines, i, a, g, written, found, r) ==
  IF r.err # OK THEN Rewritten(r.err, written, found)
  ELSE write_lines(lines, i + 1, a, g, written \o r.l, found \/ r.key_found)

\* lines 40-64: the loop from the i-th line on, into the file opened with "w"
write_lines(lines, i, a, g, written, found) ==
  IF i > Len(lines) THEN Rewritten(OK, written, found)
  ELSE write_step(lines, i, a, g, written, found, process_line(lines[i], a, g[i]))

\* lines 65-66: a config row appended for a key no row had
append_missing(r, a) ==
  IF r.err = OK /\ ~r.key_found /\ a.typ = "config"
  THEN Rewritten(OK, r.text \o "\n" \o "config" \o "," \o a.key \o "," \o a.value
                       \o "\n", FALSE)
  ELSE r

\* the file when the with block is left, by return or by exception
AfterRewrite(r) ==
  /\ file' = r.text
  /\ fstatus' = IF r.err = OK THEN "returned" ELSE r.err

\* set_config(f, typ, key, value, name)
SetConfig ==
  /\ fstatus = "idle"
  /\ \E g \in [1..Len(readlines(file)) -> GenLabels] :
       AfterRewrite(append_missing(write_lines(readlines(file), 1, args, g, "",
                                               FALSE), args))
  /\ UNCHANGED <<file0, args>>
  /\ UNCHANGED <<nodes, labels, reverse, pc, err, errname, csvnodes, presorted>>
  /\ UNCHANGED genvars

NextFile == SetConfig

\* ---------------------------------------------------------------- inputs
PosLabel == <<"a", "b", "c", "d", "e", "f">>

\* node rows with the endpoints f gives them, labelled by position
AddrInput(n, f) ==
  [i \in 1..n |-> MemoryMapNode(f[i][1], f[i][2], "regular", PosLabel[i])]

\* MemoryMapGenerator.__init__: the values of absent config rows
DefaultConfig ==
  [buswidth |-> 32, height |-> 70, fixed |-> FALSE, noaddr |-> FALSE]

\* no call of set_config
NoFile ==
  /\ file = ""
  /\ file0 = ""
  /\ args = [typ |-> "", key |-> "", value |-> "", name |-> ""]
  /\ fstatus = "idle"

Start ==
  /\ nodes = csvnodes
  /\ presorted = <<>>
  /\ pc = "parsed"
  /\ err = OK
  /\ errname = ""
  /\ out = [nodes |-> <<>>, labels |-> <<>>]
  /\ stdout = <<>>
  /\ trace = <<>>

\* the parser's state after parse(): a file of node rows only
Init ==
  /\ reverse \in BOOLEAN
  /\ \E n \in 0..MaxNodes : \E f \in [1..n -> Endpoint \X Endpoint] :
       csvnodes = AddrInput(n, f)
  /\ labels = <<>>
  /\ config = DefaultConfig
  /\ NoFile
  /\ Start

Spec == Init /\ [][Next]_vars

\* a file of a few fixed region layouts with every labelling, and label rows
Shapes ==
  {<<>>, <<(<<0, 2>>)>>, <<(<<0, 2>>), <<2, 4>>>>, <<(<<3, 4>>), <<0, 1>>>>}

LabelInput(sh, f) ==
  [i \in 1..Len(sh) |-> MemoryMapNode(sh[i][1], sh[i][2], "regular", f[i])]

LabelRows ==
  {MemoryMapRegionLabel(x) : x \in LabelNames}
    \cup {MemoryMapMultiRegionLabel(x, y) : x \in LabelNames, y \in LabelNames}

InitLabels ==
  /\ reverse \in BOOLEAN
  /\ \E sh \in Shapes : \E f \in [1..Len(sh) -> LabelNames] :
       csvnodes = LabelInput(sh, f)
  /\ \E n \in 0..MaxLabels : labels \in [1..n -> LabelRows]
  /\ config = DefaultConfig
  /\ NoFile
  /\ Start

SpecLabels == InitLabels /\ [][Next]_vars

\* a file of a few region layouts (gaps, omitted endpoints, input out of
\* order) with every kind of region, every configuration and a label row
Kinds == {"regular", "grow up regular", "grow down regular"}

GeomShapes ==
  {<<>>,
   <<(<<0, 4>>)>>,
   <<(<<0, None>>)>>,
   <<(<<None, 4>>)>>,
   <<(<<0, 2>>), <<6, 7>>>>,
   <<(<<0, None>>), <<1, 2>>>>,
   <<(<<0, None>>), <<4, 6>>>>,
   <<(<<None, 6>>), <<1, 3>>>>,
   <<(<<4, 6>>), <<None, 3>>>>,
   <<(<<16, 48>>), <<0, 16>>, <<48, 50>>>>}

GeomInput(sh, k) ==
  [i \in 1..Len(sh) |-> MemoryMapNode(sh[i][1], sh[i][2], k[i], PosLabel[i])]

\* config rows: buswidth (a multiple of 8), height, fixed, noaddr
Configs ==
  [buswidth : {8, 16, 32}, height : {5, 70}, fixed : BOOLEAN, noaddr : BOOLEAN]

GeomLabelRows ==
  {MemoryMapRegionLabel("a"), MemoryMapMultiRegionLabel("a", "G1")}

InitGeom ==
  /\ reverse \in BOOLEAN
  /\ \E sh \in GeomShapes : \E k \in [1..Len(sh) -> Kinds] :
       csvnodes = GeomInput(sh, k)
  /\ \E n \in 0..1 : labels \in [1..n -> GeomLabelRows]
  /\ config \in Configs
  /\ NoFile
  /\ Start

SpecGeom == InitGeom /\ [][Next]_vars

\* the same files, for a caller that resolves twice
SpecAgain == InitGeom /\ [][NextAgain]_vars

\* lines of a csv file, without their line end: config rows (one with two
\* fields only), node rows (complete, without comment, with too few fields,
\* with an unparsable address, without label), and an empty line
LineTexts ==
  {"config,height,70", "config,height", "config,width,8,em",
   "node,regular,0x0,0x4,a,text", "node,regular,0x0,0x4,a", "node,regular",
   "node,regular,zz,0x4,b,text", "node,regular,,0x8,,text", ""}

\* the file of the lines f; the last line ends with "\n" when nl
FileText(f, nl) ==
  join([i \in 1..Len(f) |-> IF i < Len(f) \/ nl THEN f[i] \o "\n" ELSE f[i]],
       "")

\* the calls of __main__: -c key value, and -n name field value
Calls ==
  {[typ |-> "config", key |-> "height", value |-> "9", name |-> ""],
   [typ |-> "node", key |-> "hi", value |-> "9", name |-> "a"],
   [typ |-> "node", key |-> "size", value |-> "9", name |-> "a"]}

\* a csv file of up to MaxLines lines before set_config is called
InitFile ==
  /\ \E n \in 0..MaxLines : \E f \in [1..n -> LineTexts] : \E nl \in BOOLEAN :
       file = FileText(f, nl)
  /\ file0 = file
  /\ args \in Calls
  /\ fstatus = "idle"
  /\ reverse = FALSE
  /\ csvnodes = <<>>
  /\ labels = <<>>
  /\ config = DefaultConfig
  /\ Start

SpecFile == InitFile /\ [][NextFile]_vars

\* ---------------------------------------------------------------- properties
\* sort_and_check_nodes has returned without raising
SortReturned ==
  \/ pc \in {"resolved", "checked"}
  \/ pc = "failed" /\ err = "UnknownLabel"

\* sort_and_check_nodes has raised
SortRaised == pc = "failed" /\ err # "UnknownLabel"

Defined(n) == n.lo # None /\ n.hi # None

\* the addresses of the half-open interval [lo, hi)
Interval(n) == n.lo..(n.hi - 1)

Intersect(a, b) == Defined(a) /\ Defined(b) /\ Interval(a) \cap Interval(b) # {}

IsBlank(n) == n.kind = "rempty"

\* a region that is valid on its own: the endpoint the direction needs is
\* there, no endpoint is negative, and hi > lo when both are there
ValidRegion(n, rev) ==
  /\ IF rev THEN n.hi # None ELSE n.lo # None
  /\ n.lo # None => n.lo >= 0
  /\ n.hi # None => n.hi >= 0
  /\ Defined(n) => n.hi > n.lo

AllValid(s, rev) == \A i \in 1..Len(s) : ValidRegion(s[i], rev)

\* C1: after sort_and_check_nodes returns, in either direction, no two
\* distinct regions of the resolved list (authored, with an inferred
\* endpoint, or blank) whose endpoints are both defined have intersecting
\* address intervals [lo, hi).
C1_NoOverlap ==
  SortReturned =>
    \A i \in 1..Len(nodes) : \A j \in 1..Len(nodes) :
      i # j => ~Intersect(nodes[i], nodes[j])

\* C1 witness: a resolved list with a blank region, a region whose endpoint
\* fill_gaps inferred, and at least three regions with a non-empty interval.
C1_Witness ==
  /\ SortReturned
  /\ \E i \in 1..Len(nodes) : IsBlank(nodes[i])
  /\ \E i \in 1..Len(nodes) :
       ~Defined(presorted[i]) /\ Defined(nodes[i]) /\ Interval(nodes[i]) # {}
  /\ Cardinality({i \in 1..Len(nodes) :
                    Defined(nodes[i]) /\ Interval(nodes[i]) # {}}) >= 3

\* C2: after sort_and_check_nodes returns, every pair of adjacent regions is
\* contiguous: next.lo = prev.hi ascending, prev.lo = next.hi descending.
C2_Contiguous ==
  SortReturned =>
    \A i \in 1..(Len(nodes) - 1) :
      IF reverse THEN nodes[i].lo = nodes[i + 1].hi
                 ELSE nodes[i + 1].lo = nodes[i].hi

\* C3: whenever sort_and_check_nodes returns without raising, every region
\* of the resolved list has both lo and hi defined (an input whose trailing
\* endpoint cannot be inferred is rejected, not accepted).
C3_EndpointTotality ==
  SortReturned => \A i \in 1..Len(nodes) : Defined(nodes[i])

\* C4: every region of a successfully resolved list that has both endpoints
\* defined satisfies 0 <= lo and hi > lo.
C4_PositiveWidth ==
  SortReturned =>
    \A i \in 1..Len(nodes) :
      Defined(nodes[i]) => 0 <= nodes[i].lo /\ nodes[i].hi > nodes[i].lo

\* C5: for an input of individually valid regions in which two regions with
\* both endpoints defined intersect, sort_and_check_nodes raises the overlap
\* error and leaves no resolved sequence (self.nodes stays the input).
C5_OverlapRejected ==
  ( /\ pc # "parsed"
    /\ AllValid(csvnodes, reverse)
    /\ \E i \in 1..Len(csvnodes) : \E j \in 1..Len(csvnodes) :
         i # j /\ Intersect(csvnodes[i], csvnodes[j]) )
  => (pc = "failed" /\ err = "Overlap" /\ nodes = csvnodes /\ presorted = <<>>)

\* C5 witness: the overlap is raised for three valid regions of which only
\* the first and the last of the input intersect.
C5_Witness ==
  /\ pc = "failed" /\ err = "Overlap"
  /\ Len(csvnodes) = 3
  /\ AllValid(csvnodes, reverse)
  /\ \A i \in 1..3 : Defined(csvnodes[i])
  /\ csvnodes[1].lo # csvnodes[3].lo /\ csvnodes[1].hi # csvnodes[3].hi
  /\ Intersect(csvnodes[1], csvnodes[3])
  /\ ~Intersect(csvnodes[1], csvnodes[2])
  /\ ~Intersect(csvnodes[2], csvnodes[3])

\* C6: sort_and_check_nodes raises for every input, of any size, that
\* contains a region that is invalid on its own.
C6_InvalidRejected ==
  ( /\ pc # "parsed"
    /\ \E i \in 1..Len(csvnodes) : ~ValidRegion(csvnodes[i], reverse) )
  => (SortRaised /\ nodes = csvnodes)

\* C6 witness: a single region with a negative endpoint and hi > lo has been
\* rejected.
C6_Witness ==
  /\ SortRaised
  /\ Len(csvnodes) = 1
  /\ Defined(csvnodes[1])
  /\ csvnodes[1].lo < 0
  /\ csvnodes[1].hi > csvnodes[1].lo

\* <<lo, hi, kind>> of every region of a list
Shape(s) == [i \in 1..Len(s) |-> <<s[i].lo, s[i].hi, s[i].kind>>]

\* distance between order-adjacent regions a (earlier) and b (later)
GapBetween(a, b, rev) == IF rev THEN a.lo - b.hi ELSE b.lo - a.hi

RECURSIVE WithBlanks(_, _, _)
\* the authored regions a[k..] in order, with one blank region
\* [trailing edge of the earlier, leading edge of the later) after each region
\* that is more than one address unit away from the next
WithBlanks(a, k, rev) ==
  IF k > Len(a) THEN <<>>
  ELSE IF k < Len(a) /\ GapBetween(a[k], a[k + 1], rev) > 1
       THEN << <<a[k].lo, a[k].hi, a[k].kind>>,
               IF rev THEN <<a[k + 1].hi, a[k].lo, "rempty">>
                      ELSE <<a[k].hi, a[k + 1].lo, "rempty">> >>
            \o WithBlanks(a, k + 1, rev)
       ELSE << <<a[k].lo, a[k].hi, a[k].kind>> >> \o WithBlanks(a, k + 1, rev)

Authored(s) == SelectSeq(s, LAMBDA n : ~IsBlank(n))

\* s is t in some order
IsPermutation(s, t) ==
  /\ Len(s) = Len(t)
  /\ \E f \in [1..Len(s) -> 1..Len(s)] :
       /\ \A i \in 1..Len(s) : \A j \in 1..Len(s) : i # j => f[i] # f[j]
       /\ \A i \in 1..Len(s) : s[i] = t[f[i]]

\* C7: for a fully specified input that is accepted, the resolved sequence
\* is the authored regions in address order with exactly one blank region
\* between each order-adjacent pair more than one address unit apart,
\* covering [trailing edge of the earlier, leading edge of the later), and
\* no other blank region.
C7_BlankFill ==
  (SortReturned /\ \A i \in 1..Len(csvnodes) : Defined(csvnodes[i]))
  => /\ IsPermutation(Authored(nodes), csvnodes)
     /\ \A k \in 1..(Len(Authored(nodes)) - 1) :
          GapBetween(Authored(nodes)[k], Authored(nodes)[k + 1], reverse) >= 0
     /\ Shape(nodes) = WithBlanks(Authored(nodes), 1, reverse)

\* C7 witness: three fully specified regions given out of order, one pair
\* exactly one unit apart (no blank) and one pair further apart (a blank).
C7_Witness ==
  /\ SortReturned
  /\ Len(csvnodes) = 3
  /\ \A i \in 1..3 : Defined(csvnodes[i])
  /\ Authored(nodes) # csvnodes
  /\ Len(nodes) = 4
  /\ \E k \in 1..3 : ~IsBlank(nodes[k]) /\ ~IsBlank(nodes[k + 1])
                      /\ GapBetween(nodes[k], nodes[k + 1], reverse) = 1

\* C8: fill_gaps changes exactly the undefined trailing endpoint of each
\* region that has a successor in the sorted sequence: ascending, hi becomes
\* next.lo - 1; descending, lo becomes next.hi + 1.
C8_InferredEndpoint ==
  SortReturned =>
    /\ Len(nodes) = Len(presorted)
    /\ \A i \in 1..Len(nodes) :
         IF reverse
         THEN /\ nodes[i].hi = presorted[i].hi
              /\ nodes[i].lo = IF presorted[i].lo = None /\ i < Len(nodes)
                               THEN presorted[i + 1].hi + 1
                               ELSE presorted[i].lo
         ELSE /\ nodes[i].lo = presorted[i].lo
              /\ nodes[i].hi = IF presorted[i].hi = None /\ i < Len(nodes)
                               THEN presorted[i + 1].lo - 1
                               ELSE presorted[i].hi

\* every label a label row refers to
References ==
  {labels[i].nodeid : i \in {k \in 1..Len(labels) : labels[k].cls = "region"}}
    \cup {labels[i].topnode : i \in {k \in 1..Len(labels) : labels[k].cls = "multi"}}
    \cup {labels[i].bottomnode : i \in {k \in 1..Len(labels) : labels[k].cls = "multi"}}

MissingReferences == {l \in References : \A i \in 1..Len(nodes) : nodes[i].label # l}

CheckLabelsDone == pc = "checked" \/ (pc = "failed" /\ err = "UnknownLabel")

\* C9: check_labels raises, naming a missing label, exactly when some
\* RegionLabel target or MultiRegionLabel top or bottom is the label of no
\* region of the resolved list, returns normally otherwise, and changes
\* neither the labels nor the regions.
C9_CheckLabels ==
  /\ [](CheckLabelsDone =>
          /\ (pc = "failed") <=> (MissingReferences # {})
          /\ pc = "failed" => errname \in MissingReferences)
  /\ [][pc = "resolved" => (nodes' = nodes /\ labels' = labels)]_vars

\* C9 witness: check_labels has raised for a MultiRegionLabel whose top
\* exists and whose bottom does not, with every other reference present.
C9_Witness ==
  /\ pc = "failed" /\ err = "UnknownLabel"
  /\ \E i \in 1..Len(labels) :
       /\ labels[i].cls = "multi"
       /\ labels[i].topnode \notin MissingReferences
       /\ MissingReferences = {labels[i].bottomnode}
  /\ \E i \in 1..Len(nodes) : IsBlank(nodes[i])

\* C10: in every successfully resolved sequence no two regions carry the
\* same label.
C10_UniqueLabels ==
  SortReturned =>
    \A i \in 1..Len(nodes) : \A j \in 1..Len(nodes) :
      i # j => nodes[i].label # nodes[j].label

\* C11: a second sort_and_check_nodes with the same direction, on the regions
\* a successful first call left, returns without raising and leaves the same
\* sequence: same order, same lo and hi, no further blank region.
C11_Idempotent ==
  [][( /\ pc = "resolved"
       /\ trace = <<"sort_and_check_nodes">>
       /\ (pc' = "resolved" \/ (pc' = "failed" /\ err' # "UnknownLabel")) )
     => (pc' = "resolved" /\ nodes' = nodes)]_vars

\* gen_node_strs has returned the node markup
NodesGenerated == pc \in {"generated", "printed"}

\* the outer extent of the resolved sequence
TotalSpan ==
  IF reverse THEN nodes[1].hi - nodes[Len(nodes)].lo
             ELSE nodes[Len(nodes)].hi - nodes[1].lo

\* the fraction h is the number n / d (d > 0)
SameNumber(h, n, d) == h[1] * d = n * h[2]

\* h is max(1.3, n / d) (d > 0)
FlooredAt(h, n, d) ==
  IF 10 * n > 13 * d THEN SameNumber(h, n, d) ELSE SameNumber(h, 13, 10)

C13_FixedHeight ==
  (NodesGenerated /\ config.fixed) =>
    /\ Len(out.nodes) = Len(nodes)
    /\ \A i \in 1..Len(nodes) : SameNumber(out.nodes[i].height, 3, 2)

\* C13 witness: a fixed-height diagram of three regions of three different
\* widths, with and without a growth annotation.
C13_Witness ==
  /\ NodesGenerated /\ config.fixed
  /\ Len(nodes) = 3
  /\ \A i \in 1..3 : Defined(nodes[i])
  /\ Cardinality({nodes[i].hi - nodes[i].lo : i \in 1..3}) = 3
  /\ \E i \in 1..3 : nodes[i].grow
  /\ \E i \in 1..3 : ~nodes[i].grow

\* C14: every address label emitted, ascending or descending, is "0x" and
\* 2 x (buswidth / 8) zero-padded hexadecimal digits.
C14_AddressWidth ==
  NodesGenerated =>
    \A i \in 1..Len(out.nodes) :
      /\ out.nodes[i].top # "" =>
           Len(out.nodes[i].top) = 2 + 2 * (config.buswidth \div 8)
      /\ out.nodes[i].bottom # "" =>
           Len(out.nodes[i].bottom) = 2 + 2 * (config.buswidth \div 8)

\* lo, hi, kind, label and growth flag of every region
Fields(s) ==
  [i \in 1..Len(s) |->
     <<s[i].lo, s[i].hi, s[i].kind, s[i].label, s[i].grow>>]

\* C15: once sort_and_check_nodes has returned, no later step (check_labels,
\* height calculation, node and label markup) changes lo, hi, kind, label or
\* growth flag of any region of the resolved sequence.
C15_FrameAfterResolution ==
  [][(pc \in {"resolved", "checked", "generated"})
       => Fields(nodes') = Fields(nodes)]_vars

\* markup only after the two checks, in order; nothing printed by a run that
\* raised; one print, of the finished markup
OutputOrdered ==
  /\ (out # [nodes |-> <<>>, labels |-> <<>>]
        \/ \E k \in 1..Len(trace) : trace[k] = "gen_node_strs")
     => (Len(trace) >= 3
         /\ SubSeq(trace, 1, 3) =
              <<"sort_and_check_nodes", "check_labels", "gen_node_strs">>)
  /\ (pc \in {"failed", "genfailed"}) => (stdout = <<>>)
  /\ (stdout # <<>>)
     => (pc = "printed"
         /\ stdout = <<out>>
         /\ trace = <<"sort_and_check_nodes", "check_labels",
                      "gen_node_strs", "print">>)

\* C16: node markup exists only after sort_and_check_nodes and then
\* check_labels have returned, in that order; the document is printed once,
\* after the markup; and a run in which resolution, label checking or
\* generation raised has printed nothing and takes no further step.
C16_NoPartialOutput ==
  /\ []OutputOrdered
  /\ [][(pc \in {"failed", "genfailed"}) => vars' = vars]_vars

\* C16 witness: generation raised on an address label after the markup of
\* a checked list had begun, and nothing has been printed.
C16_Witness ==
  /\ pc = "genfailed" /\ err = "ValueError"
  /\ trace = <<"sort_and_check_nodes", "check_labels">>
  /\ Fields(nodes) # Fields(presorted)
  /\ labels # <<>>
  /\ stdout = <<>>

\* C17: when set_config raises while processing a line, the file holds the
\* same lines after the call as before it.
C17_AllOrNothing ==
  (fstatus \notin {"idle", "returned"}) => (file = file0)

====
